---- MODULE Spec2Model ----
(***************************************************************************)
(* A model of the similarity search engine of rag-poc-framework: the       *)
(* vector utilities (cosineSimilarity), the EmbeddingService (chunking and *)
(* findMostSimilar), the flat-file DatabaseAdapter and the                 *)
(* DocumentProcessorService that ties them together.                       *)
(***************************************************************************)
EXTENDS Integers, Sequences, FiniteSets, TLC

(***************************************************************************)
(* IEEE-754 binary64 arithmetic.  JavaScript numbers are doubles, and      *)
(* cosineSimilarity rounds three times: Math.sqrt, the product of the two  *)
(* magnitudes, and the division.  Naturals wider than TLC's integers are   *)
(* little-endian sequences of limbs; a positive double is a 53-bit         *)
(* significand m and an exponent e, standing for m * 2^e.                  *)
(***************************************************************************)
LimbBits == 15

LimbBase == 2 ^ LimbBits

SignificandBits == 53

RECURSIVE BNorm(_)
BNorm(a) ==
    IF a = <<>> THEN <<>>
    ELSE IF a[Len(a)] = 0 THEN BNorm(SubSeq(a, 1, Len(a) - 1))
    ELSE a

RECURSIVE BFromInt(_)
BFromInt(n) ==
    IF n = 0 THEN <<>> ELSE <<n % LimbBase>> \o BFromInt(n \div LimbBase)

BLimb(a, i) == IF i <= Len(a) THEN a[i] ELSE 0

RECURSIVE BCmpFrom(_, _, _)
BCmpFrom(a, b, i) ==
    IF i = 0 THEN 0
    ELSE IF BLimb(a, i) > BLimb(b, i) THEN 1
    ELSE IF BLimb(a, i) < BLimb(b, i) THEN -1
    ELSE BCmpFrom(a, b, i - 1)

BCmp(a, b) == BCmpFrom(a, b, IF Len(a) > Len(b) THEN Len(a) ELSE Len(b))

RECURSIVE BAddFrom(_, _, _, _)
BAddFrom(a, b, i, carry) ==
    IF i > Len(a) /\ i > Len(b)
    THEN IF carry = 0 THEN <<>> ELSE <<carry>>
    ELSE LET s == BLimb(a, i) + BLimb(b, i) + carry
         IN  <<s % LimbBase>> \o BAddFrom(a, b, i + 1, s \div LimbBase)

BAdd(a, b) == BNorm(BAddFrom(a, b, 1, 0))

RECURSIVE BSubFrom(_, _, _, _)
BSubFrom(a, b, i, borrow) ==
    IF i > Len(a) THEN <<>>
    ELSE LET d == BLimb(a, i) - BLimb(b, i) - borrow
         IN  IF d < 0
             THEN <<d + LimbBase>> \o BSubFrom(a, b, i + 1, 1)
             ELSE <<d>> \o BSubFrom(a, b, i + 1, 0)

\* a - b for a >= b
BSub(a, b) == BNorm(BSubFrom(a, b, 1, 0))

RECURSIVE BMulSmallFrom(_, _, _, _)
BMulSmallFrom(a, k, i, carry) ==
    IF i > Len(a)
    THEN IF carry = 0 THEN <<>> ELSE <<carry>>
    ELSE LET p == a[i] * k + carry
         IN  <<p % LimbBase>> \o BMulSmallFrom(a, k, i + 1, p \div LimbBase)

\* a * k for 0 <= k < LimbBase
BMulSmall(a, k) == BNorm(BMulSmallFrom(a, k, 1, 0))

BShiftLimbs(a, n) ==
    IF a = <<>> \/ n = 0 THEN a ELSE [i \in 1..n |-> 0] \o a

RECURSIVE BMulFrom(_, _, _)
BMulFrom(a, b, i) ==
    IF i > Len(b) THEN <<>>
    ELSE BAdd(BShiftLimbs(BMulSmall(a, b[i]), i - 1), BMulFrom(a, b, i + 1))

BMul(a, b) == BMulFrom(a, b, 1)

\* a * 2^n
BShl(a, n) == BShiftLimbs(BMulSmall(a, 2 ^ (n % LimbBits)), n \div LimbBits)

RECURSIVE BDivSmallFrom(_, _, _, _)
BDivSmallFrom(a, k, i, rem) ==
    IF i = 0 THEN <<>>
    ELSE LET cur == rem * LimbBase + a[i]
         IN  BDivSmallFrom(a, k, i - 1, cur % k) \o <<cur \div k>>

\* floor(a / 2^n)
BShr(a, n) ==
    LET dropped == n \div LimbBits
        rest == IF dropped >= Len(a) THEN <<>>
                ELSE SubSeq(a, dropped + 1, Len(a))
    IN  BNorm(BDivSmallFrom(rest, 2 ^ (n % LimbBits), Len(rest), 0))

RECURSIVE IntBitLen(_)
IntBitLen(n) == IF n = 0 THEN 0 ELSE 1 + IntBitLen(n \div 2)

BBitLen(a) ==
    IF a = <<>> THEN 0 ELSE (Len(a) - 1) * LimbBits + IntBitLen(a[Len(a)])

BIsOdd(a) == a # <<>> /\ a[1] % 2 = 1

BOne == <<1>>

\* y, with x evaluated first: TLC evaluates operator arguments on demand, and
\* a long chain of pending arguments exhausts its stack
Strict(x, y) == IF x = x THEN y ELSE x

\* The value of a natural of at most two limbs
BToInt(a) == BLimb(a, 1) + BLimb(a, 2) * LimbBase

\* The largest d <= est with v * d <= r
RECURSIVE BDigitDown(_, _, _)
BDigitDown(r, v, est) ==
    IF BCmp(BMulSmall(v, est), r) > 0 THEN BDigitDown(r, v, est - 1) ELSE est

\* floor(r / v) for r < v * LimbBase and v with a top limb >= LimbBase / 2:
\* the two top limbs of r over the top limb of v overestimate it by at most 2
BQuotientDigit(r, v) ==
    LET top2 == BLimb(r, Len(v) + 1) * LimbBase + BLimb(r, Len(v))
        est == top2 \div v[Len(v)]
    IN  BDigitDown(r, v, IF est > LimbBase - 1 THEN LimbBase - 1 ELSE est)

\* Long division continued by limb i of u, from the quotient and the
\* remainder qr of the limbs above
BDivModStep(u, v, qr, i) ==
    LET r == BNorm(<<u[i]>> \o qr[2])
        d == BQuotientDigit(r, v)
    IN  <<BNorm(<<d>> \o qr[1]), BSub(r, BMulSmall(v, d))>>

RECURSIVE BDivModDownTo(_, _, _)
BDivModDownTo(u, v, i) ==
    Strict(<<u, v>>, IF i > Len(u) THEN <<(<<>>), (<<>>)>>
                     ELSE LET above == BDivModDownTo(u, v, i + 1)
                          IN  Strict(above, BDivModStep(u, v, above, i)))

\* <<floor(u / v), u mod v>> for v with a top limb >= LimbBase / 2
BDivMod(u, v) == BDivModDownTo(u, v, 1)

\* floor(sqrt(p)) for p < LimbBase^2, between lo and hi
RECURSIVE IntSqrtBetween(_, _, _)
IntSqrtBetween(p, lo, hi) ==
    IF lo = hi THEN lo
    ELSE LET mid == (lo + hi + 1) \div 2
         IN  IF mid * mid <= p
             THEN IntSqrtBetween(p, mid, hi)
             ELSE IntSqrtBetween(p, lo, mid - 1)

IntSqrt(p) == IntSqrtBetween(p, 0, LimbBase - 1)

\* (2 * root * LimbBase + d) * d : what the root digit d takes off the remainder
BSqrtTaken(root, d) ==
    BMulSmall(BAdd(BShiftLimbs(BAdd(root, root), 1), BFromInt(d)), d)

\* The largest d <= est with BSqrtTaken(root, d) <= r
RECURSIVE BSqrtDigitDown(_, _, _)
BSqrtDigitDown(r, root, est) ==
    IF BCmp(BSqrtTaken(root, est), r) > 0
    THEN BSqrtDigitDown(r, root, est - 1)
    ELSE est

\* The long-hand square root continued by the pair of limbs 2j-1, 2j of n,
\* from the root and the remainder rr of the pairs above
BSqrtStep(n, rr, j) ==
    LET r == BNorm(<<n[2 * j - 1], n[2 * j]>> \o rr[2])
    IN  IF rr[1] = <<>>
        THEN LET d == IntSqrt(BToInt(r))
             IN  <<BFromInt(d), BSub(r, BFromInt(d * d))>>
        ELSE LET est == BToInt(BDivMod(SubSeq(r, 2, Len(r)), rr[1])[1]) \div 2
                 d == BSqrtDigitDown(r, rr[1],
                          IF est > LimbBase - 1 THEN LimbBase - 1 ELSE est)
             IN  <<BNorm(<<d>> \o rr[1]), BSub(r, BSqrtTaken(rr[1], d))>>

RECURSIVE BSqrtDownTo(_, _)
BSqrtDownTo(n, j) ==
    Strict(n, IF 2 * j > Len(n) THEN <<(<<>>), (<<>>)>>
              ELSE LET above == BSqrtDownTo(n, j + 1)
                   IN  Strict(above, BSqrtStep(n, above, j)))

\* <<floor(sqrt(n)), n - floor(sqrt(n))^2>> for n of an even number of limbs
\* whose top pair is at least LimbBase^2 / 4
BSqrtRem(n) == BSqrtDownTo(n, 1)

FZero == [s |-> 0, m |-> <<>>, e |-> 0]

\* How the part cut off a significand compares to one half (-1, 0, 1): its
\* `bits` low bits are `low`, and `sticky` says that more follows them
FHalf(low, bits, sticky) ==
    LET half == 2 ^ (bits - 1)
    IN  IF low > half THEN 1
        ELSE IF low < half THEN -1
        ELSE IF sticky THEN 1 ELSE 0

\* The double nearest to sign * (q + frac) * 2^e, where q has 53 bits and
\* frac in [0, 1) compares to one half as `half` says: round to nearest, ties
\* to even.
FRound(sign, q, e, half) ==
    LET up == half > 0 \/ (half = 0 /\ BIsOdd(q))
        q1 == IF up THEN BAdd(q, BOne) ELSE q
    IN  IF BBitLen(q1) > SignificandBits
        THEN [s |-> sign, m |-> BShr(q1, 1), e |-> e + 1]
        ELSE [s |-> sign, m |-> q1, e |-> e]

\* The double of an integer |n| < 2^31 (exact)
FFromInt(n) ==
    IF n = 0 THEN FZero
    ELSE LET a == IF n < 0 THEN -n ELSE n
             sh == SignificandBits - IntBitLen(a)
         IN  [s |-> IF n < 0 THEN -1 ELSE 1, m |-> BShl(BFromInt(a), sh), e |-> -sh]

\* Math.sqrt of the double x >= 0, correctly rounded
FSqrt(x) ==
    IF x.s = 0 THEN FZero
    ELSE LET \* a radicand of 8 limbs (119 or 120 bits) and an even exponent
             sh == 8 * LimbBits - SignificandBits - 1 + (x.e % 2)
             rr == BSqrtRem(BShl(x.m, sh))
             \* the root has 60 bits: 7 more than a significand
             cut == 4 * LimbBits - SignificandBits
         IN  FRound(1, BShr(rr[1], cut), (x.e - sh) \div 2 + cut,
                    FHalf(rr[1][1] % (2 ^ cut), cut, rr[2] # <<>>))

\* x * y, rounded
FMul(x, y) ==
    IF x.s = 0 \/ y.s = 0 THEN FZero
    ELSE LET p == BMul(x.m, y.m)
             cut == BBitLen(p) - SignificandBits
             q == BShr(p, cut)
             rem == BSub(p, BShl(q, cut))
             half == BCmp(BAdd(rem, rem), BShl(BOne, cut))
         IN  FRound(x.s * y.s, q, x.e + y.e + cut, half)

\* x / y for y # 0, rounded
FDiv(x, y) ==
    IF x.s = 0 THEN FZero
    ELSE LET \* a divisor of 4 full limbs, and a quotient of 60 or 61 bits
             up == 4 * LimbBits - SignificandBits
             qr == BDivMod(BShl(x.m, up + 4 * LimbBits), BShl(y.m, up))
             cut == BBitLen(qr[1]) - SignificandBits
         IN  FRound(x.s * y.s, BShr(qr[1], cut), x.e - y.e - 4 * LimbBits + cut,
                    FHalf(qr[1][1] % (2 ^ cut), cut, qr[2] # <<>>))

\* -1, 0, 1 as x < y, x = y, x > y
FCmp(x, y) ==
    IF x.s # y.s THEN (IF x.s < y.s THEN -1 ELSE 1)
    ELSE IF x.s = 0 THEN 0
    ELSE LET mag == IF x.e # y.e THEN (IF x.e < y.e THEN -1 ELSE 1)
                    ELSE BCmp(x.m, y.m)
         IN  x.s * mag

FOne == FFromInt(1)

FMinusOne == FFromInt(-1)

(***************************************************************************)
(* JavaScript values: what typeof, Array.isArray, `in` and === tell apart. *)
(***************************************************************************)
Undefined == [t |-> "undefined"]

Null == [t |-> "null"]

Str(s) == [t |-> "string", s |-> s]

Num(n) == [t |-> "number", n |-> n]

Arr(items) == [t |-> "array", items |-> items]

\* An object is its own properties: a function from their names to their values
Obj(props) == [t |-> "object", props |-> props]

\* typeof x === 'object' && x !== null && !Array.isArray(x)
IsPlainObject(x) == x.t = "object"

\* x.hasOwnProperty(name), and `name in x`, for a plain object
HasProperty(x, name) == x.t = "object" /\ name \in DOMAIN x.props

\* x[name]: undefined for a property that is not there
Property(x, name) == IF HasProperty(x, name) THEN x.props[name] ELSE Undefined

\* { ...x, [name]: value }
WithProperty(x, name, value) ==
    Obj([f \in DOMAIN x.props \cup {name} |-> IF f = name THEN value ELSE x.props[f]])

(***************************************************************************)
(* DatabaseAdapter: one JSON file per table.                               *)
(***************************************************************************)
MaxUuids == 3


EMBEDDINGS_TABLE == "embeddings"

Tables == {EMBEDDINGS_TABLE}

\* Names _getFilePath refuses: empty, or holding '/', '\' or '..'
InvalidTableNames == {"../embeddings"}

TableNames == Tables \cup InvalidTableNames

\* The k-th value crypto.randomUUID() hands out
Uuid(k) == "uuid-" \o ToString(k)

\* A generator that repeats itself
randomUUIDRepeating(calls) == Str(Uuid(1))

\* crypto.randomUUID(), `calls` values handed out so far: a fresh value
randomUUID(calls) == Str(Uuid(calls + 1))

\* A table file: missing, blank, not JSON, or the JSON value it holds
MissingFile == [kind |-> "missing"]

BlankFile == [kind |-> "blank"]

InvalidFile == [kind |-> "invalid"]

JsonFile(value) == [kind |-> "json", value |-> value]

\* _getFilePath throws for these names
IsInvalidTableName(tableName) == tableName \in InvalidTableNames

\* _readTable: `fault` is fs.readFile failing with an error other than ENOENT
\* (EACCES, EMFILE, EIO), which is logged and read as an empty table
_readTable(file, fault) ==
    IF fault THEN <<>>
    ELSE IF file.kind = "missing" THEN <<>>
    ELSE IF file.kind = "blank" THEN <<>>
    ELSE IF file.kind = "invalid" THEN <<>>
    ELSE IF file.value.t # "array" THEN <<>>
    ELSE file.value.items

\* What fs.writeFile does: "ok" writes the array, "refused" is the error
\* _writeTable logs and throws again, the file left as it was
WriteOutcomes == {"ok", "refused"}

_writeTable(file, data, outcome) ==
    IF outcome = "ok" THEN JsonFile(Arr(data)) ELSE file

Threw(message) == [threw |-> TRUE, value |-> Str(message)]

Returned(value) == [threw |-> FALSE, value |-> value]

\* An insert that reads and rewrites the table before it looks at data
insertCheckingLate(file, calls, tableName, data, fault, outcome) ==
    IF IsInvalidTableName(tableName)
    THEN [file |-> file, calls |-> calls, out |-> Threw("Invalid table name")]
    ELSE IF ~IsPlainObject(data)
    THEN [file |-> _writeTable(file, _readTable(file, fault), outcome), calls |-> calls,
          out |-> Threw("Data to insert must be an object.")]
    ELSE IF HasProperty(data, "id")
    THEN [file |-> _writeTable(file, _readTable(file, fault), outcome), calls |-> calls,
          out |-> Threw("Input data should not contain an 'id' property")]
    ELSE [file |-> _writeTable(file, Append(_readTable(file, fault),
                                            WithProperty(data, "id", randomUUID(calls))),
                               outcome),
          calls |-> calls + 1,
          out |-> IF outcome = "ok"
                  THEN Returned(WithProperty(data, "id", randomUUID(calls)))
                  ELSE Threw("write failed")]

\* insert(tableName, data): the file, the uuids handed out and the outcome
insert(file, calls, tableName, data, fault, outcome) ==
    IF ~IsPlainObject(data)
    THEN [file |-> file, calls |-> calls,
          out |-> Threw("Data to insert must be an object.")]
    ELSE IF HasProperty(data, "id")
    THEN [file |-> file, calls |-> calls,
          out |-> Threw("Input data should not contain an 'id' property")]
    ELSE IF IsInvalidTableName(tableName)
    THEN [file |-> file, calls |-> calls, out |-> Threw("Invalid table name")]
    ELSE LET tableData == _readTable(file, fault)
             newRecord == WithProperty(data, "id", randomUUID(calls))
         IN  [file |-> _writeTable(file, Append(tableData, newRecord), outcome),
              calls |-> calls + 1,
              out |-> IF outcome = "ok" THEN Returned(newRecord)
                      ELSE Threw("write failed")]

\* The loop of insertMany over dataArray, from item i on
RECURSIVE insertManyLoop(_, _, _, _, _)
insertManyLoop(dataArray, i, tableData, newRecords, calls) ==
    IF i > Len(dataArray)
    THEN [tableData |-> tableData, newRecords |-> newRecords, calls |-> calls]
    ELSE IF ~IsPlainObject(dataArray[i]) \/ HasProperty(dataArray[i], "id")
    THEN insertManyLoop(dataArray, i + 1, tableData, newRecords, calls)
    ELSE LET newRecord == WithProperty(dataArray[i], "id", randomUUID(calls))
         IN  insertManyLoop(dataArray, i + 1, Append(tableData, newRecord),
                            Append(newRecords, newRecord), calls + 1)

\* insertMany(tableName, dataArray)
insertMany(file, calls, tableName, dataArray, fault, outcome) ==
    IF dataArray.t # "array"
    THEN [file |-> file, calls |-> calls,
          out |-> Threw("Input data must be an array of objects.")]
    ELSE IF IsInvalidTableName(tableName)
    THEN [file |-> file, calls |-> calls, out |-> Threw("Invalid table name")]
    ELSE LET done == insertManyLoop(dataArray.items, 1, _readTable(file, fault),
                                    <<>>, calls)
         IN  IF done.newRecords = <<>>
             THEN [file |-> file, calls |-> calls, out |-> Returned(Arr(<<>>))]
             ELSE [file |-> _writeTable(file, done.tableData, outcome),
                   calls |-> done.calls,
                   out |-> IF outcome = "ok" THEN Returned(Arr(done.newRecords))
                           ELSE Threw("write failed")]

\* r !== null && typeof r === 'object' && 'id' in r && r.id === id
HasId(r, id) == HasProperty(r, "id") /\ r.props["id"] = id

\* r !== null && typeof r === 'object' && 'id' in r && typeof r.id === 'string'
HasStringId(r) == HasProperty(r, "id") /\ r.props["id"].t = "string"

\* getById(tableName, id)
getById(file, tableName, id, fault) ==
    IF id.t # "string" \/ id = Str("")
    THEN Returned(Null)
    ELSE IF IsInvalidTableName(tableName)
    THEN Threw("Invalid table name")
    ELSE LET HasThisId(r) == HasId(r, id)
             found == SelectSeq(_readTable(file, fault), HasThisId)
         IN  Returned(IF found = <<>> THEN Null ELSE Head(found))

\* getAll(tableName)
getAll(file, tableName, fault) ==
    IF IsInvalidTableName(tableName)
    THEN Threw("Invalid table name")
    ELSE Returned(Arr(SelectSeq(_readTable(file, fault), HasStringId)))

(***************************************************************************)
(* The record store as a state machine: the table file, the uuids handed   *)
(* out, and one call at a time (every caller awaits the call it makes).    *)
(***************************************************************************)
VARIABLES
    files,      \* the file of each table
    uuidCalls,  \* how many values crypto.randomUUID() has handed out
    last        \* the last call: what was asked, what happened, what came back

storeVars == <<files, uuidCalls, last>>

Contents == {"a", "b"}

\* What callers pass as data: objects without an id, an object that brings an
\* id of its own, and values that are no plain object
InputData ==
    {Obj([content |-> Str(c)]) : c \in Contents}
    \cup {Obj([content |-> Str("a"), id |-> Str("mine")]), Null, Arr(<<>>), Str("a")}

\* What callers pass as dataArray: arrays of such data, and a value that is no array
InputBatches ==
    {Arr(<<>>),
     Arr(<<Obj([content |-> Str("a")])>>),
     Arr(<<Obj([content |-> Str("a")]), Obj([content |-> Str("b")])>>),
     Arr(<<Null, Obj([content |-> Str("a"), id |-> Str("mine")]),
           Obj([content |-> Str("b")])>>),
     Obj([content |-> Str("a")])}

\* What callers pass as id
InputIds == {Str(Uuid(k)) : k \in 1..MaxUuids + 1} \cup {Str(""), Num(1), Undefined}

\* The file a database directory may hold for a table when the adapter starts
InitialFiles ==
    {MissingFile, BlankFile, InvalidFile, JsonFile(Obj([content |-> Str("a")]))}

NoCall == [op |-> "none", table |-> "", arg |-> Undefined, fault |-> FALSE,
           out |-> Returned(Undefined)]

StoreInit ==
    /\ files \in [Tables -> InitialFiles]
    /\ uuidCalls = 0
    /\ last = NoCall

FileOf(tableName) == IF tableName \in Tables THEN files[tableName] ELSE MissingFile

\* The files after a call on tableName that left `file` behind
StoreAfter(tableName, file) ==
    IF tableName \in Tables
    THEN files' = [files EXCEPT ![tableName] = file]
    ELSE UNCHANGED files

Insert(tableName, data, fault, outcome) ==
    LET res == insert(FileOf(tableName), uuidCalls, tableName, data, fault, outcome)
    IN  /\ res.calls <= MaxUuids
        /\ uuidCalls' = res.calls
        /\ StoreAfter(tableName, res.file)
        /\ last' = [op |-> "insert", table |-> tableName, arg |-> data,
                    fault |-> fault, out |-> res.out]

InsertMany(tableName, dataArray, fault, outcome) ==
    LET res == insertMany(FileOf(tableName), uuidCalls, tableName, dataArray,
                          fault, outcome)
    IN  /\ res.calls <= MaxUuids
        /\ uuidCalls' = res.calls
        /\ StoreAfter(tableName, res.file)
        /\ last' = [op |-> "insertMany", table |-> tableName, arg |-> dataArray,
                    fault |-> fault, out |-> res.out]

GetById(tableName, id, fault) ==
    /\ last' = [op |-> "getById", table |-> tableName, arg |-> id,
                fault |-> fault,
                out |-> getById(FileOf(tableName), tableName, id, fault)]
    /\ UNCHANGED <<files, uuidCalls>>

GetAll(tableName, fault) ==
    /\ last' = [op |-> "getAll", table |-> tableName, arg |-> Undefined,
                fault |-> fault,
                out |-> getAll(FileOf(tableName), tableName, fault)]
    /\ UNCHANGED <<files, uuidCalls>>

\* The records a table file holds for getAll when the file can be read
StoredIn(file) == getAll(file, EMBEDDINGS_TABLE, FALSE).value.items

\* a can be had from b by leaving records out
RECURSIVE IsSubSeq(_, _)
IsSubSeq(a, b) ==
    IF a = <<>> THEN TRUE
    ELSE IF b = <<>> THEN FALSE
    ELSE IF Head(a) = Head(b) THEN IsSubSeq(Tail(a), Tail(b))
    ELSE IsSubSeq(a, Tail(b))

IdOf(r) == r.props["id"]

\* The ids crypto.randomUUID() has handed out so far
GeneratedIds == {Str(Uuid(k)) : k \in 1..uuidCalls}

\* C1: the record store is append-only: no call removes, rewrites or
\* reorders a record that getAll gave before the call
C1_AppendOnly ==
    [][\A t \in Tables : IsSubSeq(StoredIn(files[t]), StoredIn(files'[t]))]_storeVars

\* C2: no two records of a table share an id, and every record insert or
\* insertMany returns carries an id the store generated, never the caller's
C2_UniqueGeneratedIds ==
    /\ \A t \in Tables :
           LET stored == StoredIn(files[t])
           IN  \A i, j \in 1..Len(stored) :
                   i # j => IdOf(stored[i]) # IdOf(stored[j])
    /\ (last.op = "insert" /\ ~last.out.threw)
           => /\ IdOf(last.out.value) \in GeneratedIds
              /\ ~HasProperty(last.arg, "id")
    /\ (last.op = "insertMany" /\ ~last.out.threw)
           => \A i \in 1..Len(last.out.value.items) :
                  /\ IdOf(last.out.value.items[i]) \in GeneratedIds
                  /\ \A j \in 1..Len(last.arg.items) :
                         HasProperty(last.arg.items[j], "id")
                             => IdOf(last.out.value.items[i]) # IdOf(last.arg.items[j])

\* C2: a table holds two records and the last call was an insert or an
\* insertMany that returned records
C2_Witness ==
    /\ \E t \in Tables : Len(StoredIn(files[t])) >= 2
    /\ \/ last.op = "insert" /\ ~last.out.threw
       \/ last.op = "insertMany" /\ ~last.out.threw /\ Len(last.out.value.items) >= 2

\* C3: when insert returned record r, a getById of r's id that follows on
\* the same table returns a record equal to r
C3_RoundTrip ==
    [][(/\ last.op = "insert" /\ ~last.out.threw
        /\ last'.op = "getById" /\ last'.table = last.table
        /\ last'.arg = IdOf(last.out.value))
           => last'.out = Returned(last.out.value)]_storeVars

(***************************************************************************)
(* vectorUtils.  Vectors are sequences of small integers, so the sums of   *)
(* products the loops accumulate are integers a double holds exactly; the  *)
(* square root, the product and the quotient round as a double does.       *)
\* What insert refuses: null, a value that is no object, an array, an object
\* with an id of its own
IsRefusedData(data) == ~IsPlainObject(data) \/ HasProperty(data, "id")

\* C12: insert called with data that is null, not an object, an array, or an
\* object that has an 'id' throws one of its two validation errors, whatever
\* the table name and whatever reading or writing the file would have done,
\* and leaves every table file and the uuid generator as they were
C12_InvalidInsertRejected ==
    [][(last'.op = "insert" /\ IsRefusedData(last'.arg)) =>
        /\ files' = files
        /\ uuidCalls' = uuidCalls
        /\ last'.out \in {Threw("Data to insert must be an object."),
                          Threw("Input data should not contain an 'id' property")}
    ]_storeVars

\* A refused insert on a table that holds records, the read failing
C12_Witness ==
    /\ last.op = "insert"
    /\ IsRefusedData(last.arg)
    /\ last.table = EMBEDDINGS_TABLE
    /\ last.fault
    /\ last.out.threw
    /\ Len(StoredIn(files[EMBEDDINGS_TABLE])) >= 2

(***************************************************************************)
MaxDim == 3

Components == {-1, 0, 1}

RECURSIVE VectorsOfDim(_)
VectorsOfDim(n) ==
    IF n = 0 THEN {<<>>}
    ELSE {Append(v, c) : v \in VectorsOfDim(n - 1), c \in Components}

Vectors == UNION {VectorsOfDim(n) : n \in 0..MaxDim}

\* product += vecA[i] * vecB[i], for i from the given index on
RECURSIVE SumOfProducts(_, _, _)
SumOfProducts(vecA, vecB, i) ==
    IF i > Len(vecA) THEN 0
    ELSE vecA[i] * vecB[i] + SumOfProducts(vecA, vecB, i + 1)

dotProduct(vecA, vecB) ==
    IF Len(vecA) # Len(vecB)
    THEN Threw("Vectors must have the same dimension for dot product.")
    ELSE Returned(FFromInt(SumOfProducts(vecA, vecB, 1)))

magnitude(vec) == FSqrt(FFromInt(SumOfProducts(vec, vec, 1)))

\* What cosineSimilarity returns, and whether its catch block ran
Cosine(value, caught) == [value |-> value, caught |-> caught]

\* cosineSimilarity whose guard forgets the dimensions
cosineSimilarityUnguarded(vecA, vecB) ==
    LET magA == magnitude(vecA)
        magB == magnitude(vecB)
    IN  IF magA = FZero \/ magB = FZero
        THEN Cosine(FZero, FALSE)
        ELSE LET dot == dotProduct(vecA, vecB)
             IN  IF dot.threw THEN Cosine(FZero, TRUE)
                 ELSE Cosine(FDiv(dot.value, FMul(magA, magB)), FALSE)

cosineSimilarity(vecA, vecB) ==
    LET magA == magnitude(vecA)
        magB == magnitude(vecB)
    IN  IF magA = FZero \/ magB = FZero \/ Len(vecA) # Len(vecB)
        THEN Cosine(FZero, FALSE)
        ELSE LET dot == dotProduct(vecA, vecB)
             IN  IF dot.threw THEN Cosine(FZero, TRUE)
                 ELSE Cosine(FDiv(dot.value, FMul(magA, magB)), FALSE)

VARIABLES
    vecA, vecB,  \* the arguments of a call of cosineSimilarity
    result       \* what the call returned, once it has

cosineVars == <<vecA, vecB, result>>

NoResult == [done |-> FALSE, value |-> FZero, caught |-> FALSE]

CosineIdle == vecA = <<>> /\ vecB = <<>> /\ result = NoResult

CosineInit == vecA \in Vectors /\ vecB \in Vectors /\ result = NoResult

CosineSimilarity ==
    /\ ~result.done
    /\ LET res == cosineSimilarity(vecA, vecB)
       IN  result' = [done |-> TRUE, value |-> res.value, caught |-> res.caught]
    /\ UNCHANGED <<vecA, vecB>>

IsZeroVector(vec) == \A i \in 1..Len(vec) : vec[i] = 0

\* C9: cosineSimilarity returns 0 when a vector has zero magnitude or the
\* dimensions differ, and its catch block never runs: dotProduct is never
\* called with vectors of different dimensions
C9_ZeroAndNoThrow ==
    result.done =>
        /\ ~result.caught
        /\ (IsZeroVector(vecA) \/ IsZeroVector(vecB) \/ Len(vecA) # Len(vecB))
               => result.value = FZero

\* C9: a call with non-zero vectors of different dimensions has returned
C9_Witness ==
    /\ result.done
    /\ Len(vecA) # Len(vecB)
    /\ ~IsZeroVector(vecA) /\ ~IsZeroVector(vecB)

\* C10: the cosine similarity lies in [-1, 1], is 1 for identical non-zero
\* vectors and 0 for orthogonal ones
C10_RangeAndFixedPoints ==
    result.done =>
        /\ FCmp(FMinusOne, result.value) <= 0
        /\ FCmp(result.value, FOne) <= 0
        /\ (vecA = vecB /\ ~IsZeroVector(vecA)) => result.value = FOne
        /\ (Len(vecA) = Len(vecB) /\ SumOfProducts(vecA, vecB, 1) = 0)
               => result.value = FZero

(***************************************************************************)
(* EmbeddingService.generateEmbedding and findMostSimilar, and              *)
(* DocumentProcessorService.findRelevantContent.                            *)
(***************************************************************************)
MaxStored == 2

\* The numbers of a JS array of numbers
Numbers(arr) == [i \in 1..Len(arr.items) |-> arr.items[i].n]

NumberArray(vec) == Arr([i \in 1..Len(vec) |-> Num(vec[i])])

\* A threshold of 0.7, the one the commented-out code names
SIMILARITY_THRESHOLD_0_7 == FDiv(FFromInt(7), FFromInt(10))

SIMILARITY_THRESHOLD == FDiv(FFromInt(1), FFromInt(2))

\* generateEmbedding(value): `provider` is what embed() does when it is called
generateEmbedding(value, provider) ==
    IF value = ""
    THEN [threw |-> FALSE, value |-> <<>>, embedCalls |-> 0]
    ELSE IF provider.fails
    THEN [threw |-> TRUE, value |-> <<>>, embedCalls |-> 1]
    ELSE [threw |-> FALSE, value |-> provider.embedding, embedCalls |-> 1]

\* The loop of findMostSimilar over storedEmbeddings, from record i on
RECURSIVE findMostSimilarLoop(_, _, _, _)
findMostSimilarLoop(queryVector, storedEmbeddings, i, similarityResults) ==
    IF i > Len(storedEmbeddings) THEN similarityResults
    ELSE LET record == storedEmbeddings[i]
         IN  IF \/ ~HasProperty(record, "embedding")
                \/ Len(Property(record, "embedding").items) # Len(queryVector)
             THEN findMostSimilarLoop(queryVector, storedEmbeddings, i + 1,
                                      similarityResults)
             ELSE LET similarity ==
                          cosineSimilarity(queryVector,
                              Numbers(Property(record, "embedding"))).value
                  IN  findMostSimilarLoop(queryVector, storedEmbeddings, i + 1,
                          IF FCmp(similarity, SIMILARITY_THRESHOLD) >= 0
                          THEN Append(similarityResults, record)
                          ELSE similarityResults)

findMostSimilar(queryVector, storedEmbeddings) ==
    IF queryVector = <<>> \/ storedEmbeddings = <<>>
    THEN Null
    ELSE Arr(findMostSimilarLoop(queryVector, storedEmbeddings, 1, <<>>))

\* typeof r.resourceId === 'string' && typeof r.contentChunk === 'string'
\* && Array.isArray(r.embedding)
IsEmbeddingRecord(r) ==
    /\ IsPlainObject(r)
    /\ Property(r, "resourceId").t = "string"
    /\ Property(r, "contentChunk").t = "string"
    /\ Property(r, "embedding").t = "array"

\* What findRelevantContent makes of what findMostSimilar returned
matchedResult(matchedChunks) ==
    IF matchedChunks = Null THEN Null
    ELSE IF matchedChunks.items = <<>> THEN Null
    ELSE Obj([chunks |-> matchedChunks])

\* Steps 2 to 5 of findRelevantContent, given the records of the table
searchStored(queryVector, validStoredEmbeddings) ==
    IF validStoredEmbeddings = <<>> THEN Null
    ELSE matchedResult(findMostSimilar(queryVector, validStoredEmbeddings))

\* findRelevantContent from the point where generateEmbedding has settled
searchEmbedded(embedded, file, fault) ==
    IF embedded.threw
    THEN [threw |-> TRUE, value |-> Str("Failed to generate embedding"),
          embedCalls |-> embedded.embedCalls]
    ELSE IF embedded.value = <<>>
    THEN [threw |-> FALSE, value |-> Null, embedCalls |-> embedded.embedCalls]
    ELSE [threw |-> FALSE,
          value |-> searchStored(embedded.value,
                        SelectSeq(getAll(file, EMBEDDINGS_TABLE, fault).value.items,
                                  IsEmbeddingRecord)),
          embedCalls |-> embedded.embedCalls]

\* findRelevantContent(userQuery)
findRelevantContent(userQuery, provider, file, fault) ==
    searchEmbedded(generateEmbedding(userQuery, provider), file, fault)

VARIABLES
    userQuery,  \* the text of the query
    provider,   \* what the embedding provider does with a text
    found       \* the last search call and what it returned

searchVars == <<userQuery, provider, found>>

\* What the table may hold besides the id: records of chunks, a record
\* without an embedding, a record whose resourceId is no string
StoredData ==
    {Obj([resourceId |-> Str("r"), contentChunk |-> Str("a"),
          embedding |-> NumberArray(<<1, 1>>)]),
     Obj([resourceId |-> Str("r"), contentChunk |-> Str("b"),
          embedding |-> NumberArray(<<1, 0>>)]),
     Obj([resourceId |-> Str("r"), contentChunk |-> Str("c"),
          embedding |-> NumberArray(<<0, 0, 1>>)]),
     Obj([resourceId |-> Str("r"), contentChunk |-> Str("d")]),
     Obj([resourceId |-> Num(1), contentChunk |-> Str("e"),
          embedding |-> NumberArray(<<1, 0>>)])}

RECURSIVE SeqsUpTo(_, _)
SeqsUpTo(S, n) ==
    IF n = 0 THEN {<<>>}
    ELSE LET shorter == SeqsUpTo(S, n - 1)
         IN  shorter \cup {Append(q, x) : q \in shorter, x \in S}

\* The table insertMany leaves when it is given the data in q, one after another
StoredTable(q) == insertMany(MissingFile, 0, EMBEDDINGS_TABLE, Arr(q), FALSE, "ok").file

StoredTables == {MissingFile} \cup {StoredTable(q) : q \in SeqsUpTo(StoredData, MaxStored) \ {<<>>}}

QueryVectors == {<<>>, <<1, 0>>, <<0, 1>>, <<1, 1, 1>>}

Providers ==
    {[fails |-> FALSE, embedding |-> v] : v \in QueryVectors}
    \cup {[fails |-> TRUE, embedding |-> <<>>]}

UserQueries == {"", "q"}

NoSearch == [op |-> "none", fault |-> FALSE, threw |-> FALSE, value |-> Undefined,
             embedCalls |-> 0]

SearchIdle == userQuery = "" /\ provider = [fails |-> TRUE, embedding |-> <<>>] /\ found = NoSearch

SearchInit ==
    /\ files \in [Tables -> StoredTables]
    /\ uuidCalls = 0
    /\ last = NoCall
    /\ userQuery \in UserQueries
    /\ provider \in Providers
    /\ found = NoSearch

\* findMostSimilar called with the provider's vector and the table's records
FindMostSimilar ==
    /\ found.op = "none"
    /\ found' = [op |-> "findMostSimilar", fault |-> FALSE, threw |-> FALSE,
                 value |-> findMostSimilar(provider.embedding,
                                           StoredIn(files[EMBEDDINGS_TABLE])),
                 embedCalls |-> 0]
    /\ UNCHANGED <<userQuery, provider>>

\* The call as `found` keeps it
Found(op, fault, res) ==
    [op |-> op, fault |-> fault, threw |-> res.threw, value |-> res.value,
     embedCalls |-> res.embedCalls]

FindRelevantContent(fault) ==
    /\ found.op = "none"
    /\ found' = Found("findRelevantContent", fault,
                      findRelevantContent(userQuery, provider,
                                          files[EMBEDDINGS_TABLE], fault))
    /\ UNCHANGED <<userQuery, provider>>

\* The records of the embeddings table, as a successful read gives them
Stored == StoredIn(files[EMBEDDINGS_TABLE])

\* The cosine similarity of a record's embedding with the query vector
SimilarityOf(r) ==
    cosineSimilarity(provider.embedding, Numbers(Property(r, "embedding"))).value

\* The embedding of r has the dimension of the query vector, and twice its
\* similarity is at least 1
IsSimilar(r) ==
    /\ HasProperty(r, "embedding")
    /\ Len(Property(r, "embedding").items) = Len(provider.embedding)
    /\ FCmp(FMul(FFromInt(2), SimilarityOf(r)), FOne) >= 0

C5_RankedBySimilarity ==
    (found.op = "findRelevantContent" /\ ~found.threw /\ found.value # Null)
        => LET chunks == found.value.props["chunks"].items
           IN  \A i, j \in 1..Len(chunks) :
                   i < j => FCmp(SimilarityOf(chunks[i]), SimilarityOf(chunks[j])) >= 0

\* C6: findMostSimilar returns the one record of the highest similarity, or
\* null when no record is similar enough
C6_SingleBestOrNull ==
    found.op = "findMostSimilar"
        => \/ found.value = Null /\ SelectSeq(Stored, IsSimilar) = <<>>
           \/ /\ IsPlainObject(found.value)
              /\ \E i \in 1..Len(Stored) : Stored[i] = found.value
              /\ IsSimilar(found.value)
              /\ \A i \in 1..Len(Stored) :
                     IsSimilar(Stored[i])
                         => FCmp(SimilarityOf(found.value), SimilarityOf(Stored[i])) >= 0

\* C7: findRelevantContent returns null exactly when the query embedding is
\* empty, or the table holds no record with a string resourceId, a string
\* contentChunk and an array embedding, or no such record reaches the
\* threshold; otherwise its chunks list is non-empty; an empty query never
\* reaches the provider
C7_NullIffNoMatch ==
    (found.op = "findRelevantContent" /\ ~found.threw)
        => /\ found.value = Null
                <=> \/ userQuery = ""
                    \/ provider.embedding = <<>>
                    \/ SelectSeq(Stored, IsEmbeddingRecord) = <<>>
                    \/ \A i \in 1..Len(Stored) :
                           ~(IsEmbeddingRecord(Stored[i]) /\ IsSimilar(Stored[i]))
           /\ found.value # Null => found.value.props["chunks"].items # <<>>
           /\ userQuery = "" => found.embedCalls = 0

(***************************************************************************)
(* EmbeddingService.generateEmbeddings: the chunker.  A text is the        *)
(* sequence of its characters.                                             *)
(***************************************************************************)
MaxTextLen == 5

MaxChunkSize == 3

Min(a, b) == IF a <= b THEN a ELSE b

\* value.substring(start, end), for 0 <= start <= end
substring(value, start, end) == SubSeq(value, start + 1, Min(end, Len(value)))

\* A chunker that starts each chunk where the one before it ended
RECURSIVE chunkLoopNoOverlap(_, _, _, _)
chunkLoopNoOverlap(value, chunkSize, overlap, i) ==
    IF i >= Len(value) THEN <<>>
    ELSE <<substring(value, i, i + chunkSize)>>
         \o chunkLoopNoOverlap(value, chunkSize, overlap, i + chunkSize)

\* A chunker that stops when less than a whole chunk is left
RECURSIVE chunkLoopWholeOnly(_, _, _, _)
chunkLoopWholeOnly(value, chunkSize, overlap, i) ==
    IF i + chunkSize > Len(value) THEN <<>>
    ELSE <<substring(value, i, i + chunkSize)>>
         \o chunkLoopWholeOnly(value, chunkSize, overlap, i + chunkSize - overlap)

\* for (let i = ...; i < value.length; i += chunkSize - overlap) chunks.push(...)
RECURSIVE chunkLoop(_, _, _, _)
chunkLoop(value, chunkSize, overlap, i) ==
    IF i >= Len(value) THEN <<>>
    ELSE <<substring(value, i, i + chunkSize)>>
         \o chunkLoop(value, chunkSize, overlap, i + chunkSize - overlap)

\* The loop over the chunks that embeds each of them
embedChunks(chunks, embedder) ==
    IF chunks = <<>> THEN Returned(<<>>)
    ELSE IF embedder.fails THEN Threw("Failed to generate embeddings")
    ELSE Returned([k \in 1..Len(chunks) |->
                      [content |-> chunks[k], embedding |-> embedder.embedding]])

\* generateEmbeddings(value, chunkSize, overlap)
generateEmbeddings(value, chunkSize, overlap, embedder) ==
    IF value = <<>> THEN Returned(<<>>)
    ELSE embedChunks(chunkLoop(value, chunkSize, overlap, 0), embedder)

VARIABLES
    value, chunkSize, overlap,  \* the arguments of a call of generateEmbeddings
    chunked                     \* what the call returned, once it has

chunkVars == <<value, chunkSize, overlap, chunked>>

Characters == {"a", "b"}

Texts == UNION {[1..n -> Characters] : n \in 0..MaxTextLen}

NotChunked == [done |-> FALSE, out |-> Returned(<<>>)]

ChunkIdle == value = <<>> /\ chunkSize = 1 /\ overlap = 0 /\ chunked = NotChunked

ChunkInit ==
    /\ value \in Texts
    /\ chunkSize \in 1..MaxChunkSize
    /\ overlap \in 0..chunkSize - 1
    /\ provider \in {[fails |-> FALSE, embedding |-> <<1, 0>>],
                     [fails |-> TRUE, embedding |-> <<>>]}
    /\ chunked = NotChunked

GenerateEmbeddings ==
    /\ ~chunked.done
    /\ chunked' = [done |-> TRUE,
                   out |-> generateEmbeddings(value, chunkSize, overlap, provider)]
    /\ UNCHANGED <<value, chunkSize, overlap>>

\* The chunks of the call that returned
Chunks == [k \in 1..Len(chunked.out.value) |-> chunked.out.value[k].content]

\* The last n elements and the first n elements of a sequence
Suffix(q, n) == SubSeq(q, Len(q) - n + 1, Len(q))

Prefix(q, n) == SubSeq(q, 1, n)

\* C8: for a non-empty text and chunkSize > overlap >= 0, every chunk has
\* exactly chunkSize characters, and the last overlap characters of a chunk
\* are the first overlap characters of the next
C8_FixedSizeChunks ==
    (chunked.done /\ ~chunked.out.threw /\ value # <<>>)
        => /\ \A k \in 1..Len(Chunks) : Len(Chunks[k]) = chunkSize
           /\ \A k \in 1..Len(Chunks) - 1 :
                  /\ Len(Chunks[k + 1]) >= overlap
                  /\ Suffix(Chunks[k], overlap) = Prefix(Chunks[k + 1], overlap)

\* C8, with chunks of up to chunkSize characters: chunk k (from 0) is the
\* text from offset k * (chunkSize - overlap) on, chunkSize characters long
\* or as many as the text has left;
\* there is a chunk for every such offset inside the text; a chunk shares
\* with the next what it has beyond its first chunkSize - overlap characters,
\* which is overlap characters when the chunk is chunkSize long
C8_ChunksUpToSize ==
    (chunked.done /\ ~chunked.out.threw /\ value # <<>>)
        => LET step == chunkSize - overlap
               n == Len(value)
           IN  /\ (Len(Chunks) - 1) * step < n
               /\ Len(Chunks) * step >= n
               /\ \A k \in 1..Len(Chunks) :
                      /\ Chunks[k] = SubSeq(value, (k - 1) * step + 1,
                                            Min(n, (k - 1) * step + chunkSize))
                      /\ Len(Chunks[k]) <= chunkSize
                      /\ (k - 1) * step + chunkSize <= n
                             => Len(Chunks[k]) = chunkSize
               /\ \A k \in 1..Len(Chunks) - 1 :
                      LET shared == Len(Chunks[k]) - step
                      IN  /\ shared >= 0 /\ shared <= overlap
                          /\ Len(Chunks[k]) = chunkSize => shared = overlap
                          /\ Len(Chunks[k + 1]) >= shared
                          /\ Suffix(Chunks[k], shared) = Prefix(Chunks[k + 1], shared)

\* C8: a call has returned several overlapping chunks, the last of them
\* shorter than chunkSize
C8_Witness ==
    /\ chunked.done /\ ~chunked.out.threw
    /\ overlap > 0
    /\ Len(Chunks) >= 3
    /\ Len(Chunks[Len(Chunks)]) < chunkSize

\* C14: for a non-empty text and chunkSize > overlap >= 0, a call that returns
\* has cut ceil(length / (chunkSize - overlap)) chunks, chunk k (from 0) being
\* the text from offset k * (chunkSize - overlap) on and at most chunkSize
\* long; no chunk is empty, every position of the text lies in some chunk,
\* and each chunk comes back, in this order, with one embedding
C14_ChunkCoverage ==
    (chunked.done /\ ~chunked.out.threw /\ value # <<>>)
        => LET step == chunkSize - overlap
               n == Len(value)
               results == chunked.out.value
           IN  /\ Len(results) = (n + step - 1) \div step
               /\ \A k \in 1..Len(results) :
                      /\ Len(results[k].content) \in 1..chunkSize
                      /\ (k - 1) * step + Len(results[k].content) <= n
                      /\ \A j \in 1..Len(results[k].content) :
                             results[k].content[j] = value[(k - 1) * step + j]
                      /\ results[k].embedding = provider.embedding
               /\ \A p \in 1..n :
                      \E k \in 1..Len(results) :
                          /\ p - (k - 1) * step \in 1..Len(results[k].content)
                          /\ results[k].content[p - (k - 1) * step] = value[p]

\* C14: a text whose last character lies in a chunk of its own only
C14_Witness ==
    /\ chunked.done /\ ~chunked.out.threw
    /\ overlap = 0
    /\ Len(chunked.out.value) >= 2
    /\ Len(value) = (Len(chunked.out.value) - 1) * chunkSize + 1
    /\ Len(chunked.out.value[Len(chunked.out.value)].content) = 1

(***************************************************************************)
(* DocumentProcessorService.processPdf: the PDF's text is stored as one    *)
(* resource, cut into chunks, and the chunks are stored as embeddings.     *)
(***************************************************************************)
MaxPdfChunks == 2

RESOURCES_TABLE == "resources"

PdfTables == {RESOURCES_TABLE, EMBEDDINGS_TABLE}

\* The defaults of generateEmbeddings(value, chunkSize = 500, overlap = 50)
DEFAULT_CHUNK_SIZE == 500

DEFAULT_OVERLAP == 50

\* A string value held as its characters
Text(chars) == [t |-> "string", chars |-> chars]

\* !fullTextContent || fullTextContent.trim().length === 0
IsBlankText(chars) == \A i \in 1..Len(chars) : chars[i] = " "

\* The records handed to insertMany, built in the wrong order
embeddingRecordsReversed(resource, chunkEmbeddings) ==
    Arr([k \in 1..Len(chunkEmbeddings) |->
            Obj([resourceId |-> resource.props["id"],
                 contentChunk |-> Text(chunkEmbeddings[Len(chunkEmbeddings) + 1 - k].content),
                 embedding |-> NumberArray(chunkEmbeddings[Len(chunkEmbeddings) + 1 - k].embedding)])])

\* chunkEmbeddings.map(ce => ({ resourceId, contentChunk, embedding }))
embeddingRecordsToInsert(resource, chunkEmbeddings) ==
    Arr([k \in 1..Len(chunkEmbeddings) |->
            Obj([resourceId |-> resource.props["id"],
                 contentChunk |-> Text(chunkEmbeddings[k].content),
                 embedding |-> NumberArray(chunkEmbeddings[k].embedding)])])

\* processPdf after insertMany: the files, the uuids handed out, the outcome
embeddingsStored(fs, resource, stored) ==
    [files |-> [fs EXCEPT ![EMBEDDINGS_TABLE] = stored.file],
     calls |-> stored.calls,
     out |-> IF stored.out.threw THEN stored.out
             ELSE Returned([resource |-> resource,
                            embeddingsCount |-> Len(stored.out.value.items)])]

\* processPdf after generateEmbeddings
chunksEmbedded(fs, calls, resource, chunkEmbeddings, fault, outcome) ==
    IF chunkEmbeddings.threw
    THEN [files |-> fs, calls |-> calls, out |-> chunkEmbeddings]
    ELSE IF Len(chunkEmbeddings.value) = 0
    THEN [files |-> fs, calls |-> calls,
          out |-> Returned([resource |-> resource, embeddingsCount |-> 0])]
    ELSE embeddingsStored(fs, resource,
             insertMany(fs[EMBEDDINGS_TABLE], calls, EMBEDDINGS_TABLE,
                        embeddingRecordsToInsert(resource, chunkEmbeddings.value),
                        fault, outcome))

\* processPdf after the insert into the resources table
resourceStored(fs, stored, doc, embedder, fault, outcome) ==
    IF stored.out.threw
    THEN [files |-> [fs EXCEPT ![RESOURCES_TABLE] = stored.file],
          calls |-> stored.calls, out |-> stored.out]
    ELSE chunksEmbedded([fs EXCEPT ![RESOURCES_TABLE] = stored.file], stored.calls,
                        stored.out.value,
                        generateEmbeddings(doc.text, DEFAULT_CHUNK_SIZE,
                                           DEFAULT_OVERLAP, embedder),
                        fault, outcome)

\* processPdf(pdfFilePath): `doc` is what fs.readFile and pdfParse make of the
\* path, `io` the read faults and write outcomes of the two tables
processPdf(fs, calls, doc, embedder, io) ==
    IF ~doc.readable
    THEN [files |-> fs, calls |-> calls, out |-> Threw("Could not read PDF file")]
    ELSE IF ~doc.parses
    THEN [files |-> fs, calls |-> calls, out |-> Threw("Could not parse PDF content")]
    ELSE IF IsBlankText(doc.text)
    THEN [files |-> fs, calls |-> calls, out |-> Threw("PDF contains no text content.")]
    ELSE resourceStored(fs,
             insert(fs[RESOURCES_TABLE], calls, RESOURCES_TABLE,
                    Obj([content |-> Text(doc.text), sourceFile |-> Str(doc.name)]),
                    io.resourcesFault, io.resourcesWrite),
             doc, embedder, io.embeddingsFault, io.embeddingsWrite)

VARIABLES
    pdf,        \* what the file at pdfFilePath holds
    processed   \* the outcome of processPdf, once it has been called

pdfVars == <<pdf, processed>>

\* A text of n characters, words of b and a separated by blanks
PdfText(n) == [i \in 1..n |-> IF i % 7 = 0 THEN " " ELSE IF i % 2 = 0 THEN "a" ELSE "b"]

\* Lengths around the multiples of the step chunkSize - overlap
PdfLengths ==
    {0, 1} \cup {k * (DEFAULT_CHUNK_SIZE - DEFAULT_OVERLAP) + d :
                    k \in 1..MaxPdfChunks, d \in {0, 1}}

PdfDocument(readable, parses, text) ==
    [readable |-> readable, parses |-> parses, text |-> text, name |-> "doc.pdf"]

PdfFiles ==
    {PdfDocument(FALSE, FALSE, <<>>), PdfDocument(TRUE, FALSE, <<>>),
     PdfDocument(TRUE, TRUE, <<" ", " ">>)}
    \cup {PdfDocument(TRUE, TRUE, PdfText(n)) : n \in PdfLengths}

PdfProviders == {[fails |-> FALSE, embedding |-> <<1, 0>>],
                 [fails |-> FALSE, embedding |-> <<0, 1, 1>>],
                 [fails |-> TRUE, embedding |-> <<>>]}

PdfIo == [resourcesFault : BOOLEAN, resourcesWrite : WriteOutcomes,
          embeddingsFault : BOOLEAN, embeddingsWrite : WriteOutcomes]

NoIo == [resourcesFault |-> FALSE, resourcesWrite |-> "ok",
         embeddingsFault |-> FALSE, embeddingsWrite |-> "ok"]

\* The store before the call: new, or as an earlier processPdf left it
EmptyDb == [files |-> [t \in PdfTables |-> MissingFile], calls |-> 0]

PdfDbs ==
    {EmptyDb,
     processPdf(EmptyDb.files, EmptyDb.calls, PdfDocument(TRUE, TRUE, <<"c">>),
                [fails |-> FALSE, embedding |-> <<0, 1>>], NoIo)}

NotProcessed == [done |-> FALSE, out |-> Returned(Undefined)]

PdfIdle == pdf = PdfDocument(FALSE, FALSE, <<>>) /\ processed = NotProcessed

PdfInit ==
    /\ \E db \in PdfDbs : files = db.files /\ uuidCalls = db.calls
    /\ last = NoCall
    /\ provider \in PdfProviders
    /\ pdf \in PdfFiles
    /\ processed = NotProcessed

PdfDone(res) ==
    /\ files' = res.files
    /\ uuidCalls' = res.calls
    /\ processed' = [done |-> TRUE, out |-> res.out]

ProcessPdf(io) ==
    /\ ~processed.done
    /\ PdfDone(processPdf(files, uuidCalls, pdf, provider, io))
    /\ UNCHANGED <<last, provider, pdf>>

\* The records of a table that were not in it before
NewRecords(before, after) ==
    LET IsNew(r) == \A i \in 1..Len(before) : IdOf(before[i]) # IdOf(r)
    IN  SelectSeq(after, IsNew)

\* The number of chunks of a text of n characters
ChunkCount(n) ==
    (n + (DEFAULT_CHUNK_SIZE - DEFAULT_OVERLAP) - 1) \div (DEFAULT_CHUNK_SIZE - DEFAULT_OVERLAP)

\* The k-th chunk of the text
ChunkAt(text, k) ==
    SubSeq(text, (k - 1) * (DEFAULT_CHUNK_SIZE - DEFAULT_OVERLAP) + 1,
           Min(Len(text), (k - 1) * (DEFAULT_CHUNK_SIZE - DEFAULT_OVERLAP) + DEFAULT_CHUNK_SIZE))

ReturnedNormally(p) == p.done /\ ~p.out.threw

\* C11: when processPdf returns normally, the resources table has exactly one
\* new record, the returned resource, holding the full text; the embeddings
\* table has one new record per chunk, in chunk order, each with the new
\* resource's id, the chunk's text and its vector; and embeddingsCount is the
\* number of embedding records added
C11_ResourceThenChunks ==
    [][ReturnedNormally(processed') =>
        /\ NewRecords(StoredIn(files[RESOURCES_TABLE]), StoredIn(files'[RESOURCES_TABLE]))
               = <<processed'.out.value.resource>>
        /\ processed'.out.value.resource.props["content"] = Text(pdf.text)
        /\ LET added == NewRecords(StoredIn(files[EMBEDDINGS_TABLE]),
                                   StoredIn(files'[EMBEDDINGS_TABLE]))
           IN  /\ Len(added) = ChunkCount(Len(pdf.text))
               /\ processed'.out.value.embeddingsCount = Len(added)
               /\ \A k \in 1..Len(added) :
                      /\ added[k].props["resourceId"] = IdOf(processed'.out.value.resource)
                      /\ added[k].props["contentChunk"] = Text(ChunkAt(pdf.text, k))
                      /\ added[k].props["embedding"] = NumberArray(provider.embedding)
               /\ \A j, k \in 1..Len(added) : j # k => IdOf(added[j]) # IdOf(added[k])
    ]_<<files, processed>>

\* A text of several chunks stored next to the records of an earlier document
C11_Witness ==
    /\ ReturnedNormally(processed)
    /\ processed.out.value.embeddingsCount >= 2
    /\ Len(StoredIn(files[EMBEDDINGS_TABLE])) > processed.out.value.embeddingsCount
    /\ Len(StoredIn(files[RESOURCES_TABLE])) = 2

(***************************************************************************)
(* llamaindex.ts, indexDocument: the document is indexed into persistDir   *)
(* unless something is already there.                                      *)
(***************************************************************************)
MaxIndexCalls == 3

\* What is at persistDir: nothing, or a directory and the index saved in it
\* ("none": no index, "partial": an index that was not saved whole)
NoDir == [exists |-> FALSE, index |-> "none"]

Dir(index) == [exists |-> TRUE, index |-> index]

\* What is at filePath: nothing, or a file and its text
NoDocument == [exists |-> FALSE, text |-> ""]

Document(text) == [exists |-> TRUE, text |-> text]

\* fs.stat(persistDir): "denied" is an error other than ENOENT
StatOutcomes == {"ok", "denied"}

\* storageContextFromDefaults and VectorStoreIndex.fromDocuments: the index is
\* built and saved, or the call fails before or after the directory was made
IndexingOutcomes == {"saved", "failed", "failedHalfway"}

\* The tally of what indexDocument did: document reads and index builds
Indexing(io, reads, builds, out) ==
    [disk |-> io, reads |-> reads, builds |-> builds, out |-> out]

\* An indexDocument that never looks at persistDir
indexDocumentAgain(io, reads, builds, stat, indexing) ==
    IF ~io.doc.exists
    THEN Indexing(io, reads, builds, Returned(Str("failed")))
    ELSE IF indexing = "saved"
    THEN Indexing([io EXCEPT !.dir = Dir(io.doc.text)], reads + 1, builds + 1,
                  Returned(Str("indexed")))
    ELSE Indexing(io, reads + 1, builds + 1, Returned(Str("failed")))

\* indexDocument(filePath, persistDir): `stat` is what fs.stat(persistDir)
\* does when something is there, `indexing` what the library calls do
indexDocument(io, reads, builds, stat, indexing) ==
    IF stat = "denied"
    THEN Indexing(io, reads, builds, Threw("EACCES"))
    ELSE IF io.dir.exists
    THEN Indexing(io, reads, builds, Returned(Str("skipped")))
    ELSE IF ~io.doc.exists
    THEN Indexing(io, reads, builds, Returned(Str("failed")))
    ELSE IF indexing = "saved"
    THEN Indexing([io EXCEPT !.dir = Dir(io.doc.text)], reads + 1, builds + 1,
                  Returned(Str("indexed")))
    ELSE IF indexing = "failedHalfway"
    THEN Indexing([io EXCEPT !.dir = Dir("partial")], reads + 1, builds + 1,
                  Returned(Str("failed")))
    ELSE Indexing(io, reads + 1, builds + 1, Returned(Str("failed")))

VARIABLES
    disk,       \* what is at filePath and at persistDir
    indexRuns   \* the calls of indexDocument so far, and the outcome of the last

indexVars == <<disk, indexRuns>>

DocumentTexts == {"a", "b"}

NoIndexRun == [calls |-> 0, reads |-> 0, builds |-> 0, out |-> Returned(Undefined)]

IndexIdle == disk = [doc |-> NoDocument, dir |-> NoDir] /\ indexRuns = NoIndexRun

IndexInit ==
    /\ disk \in [doc : {NoDocument} \cup {Document(t) : t \in DocumentTexts},
                 dir : {NoDir, Dir("none")}]
    /\ indexRuns = NoIndexRun

IndexDone(res) ==
    /\ disk' = res.disk
    /\ indexRuns' = [calls |-> indexRuns.calls + 1, reads |-> res.reads,
                     builds |-> res.builds, out |-> res.out]

IndexDocument(stat, indexing) ==
    /\ indexRuns.calls < MaxIndexCalls
    /\ IndexDone(indexDocument(disk, indexRuns.reads, indexRuns.builds, stat, indexing))

\* The document is replaced by another between two runs
EditDocument(text) ==
    /\ disk.doc # Document(text)
    /\ disk' = [disk EXCEPT !.doc = Document(text)]
    /\ UNCHANGED indexRuns

\* C13: when something is at persistDir, indexDocument reads no document,
\* builds no index and leaves the disk as it is: it returns as skipped, or
\* throws the error of fs.stat when that is not ENOENT; and once a run has
\* saved an index, persistDir is there, so that every later call is such a call
C13_SkipsWhenPersisted ==
    [][/\ (disk.dir.exists /\ indexRuns'.calls = indexRuns.calls + 1) =>
            /\ disk' = disk
            /\ indexRuns'.reads = indexRuns.reads
            /\ indexRuns'.builds = indexRuns.builds
            /\ indexRuns'.out \in {Returned(Str("skipped")), Threw("EACCES")}
       /\ (indexRuns'.calls = indexRuns.calls + 1
           /\ indexRuns'.out = Returned(Str("indexed"))) => disk'.dir.exists
    ]_indexVars

\* A second call after a run that saved the index: skipped, the index of the
\* first document still there although the document has changed
C13_Witness ==
    /\ indexRuns.calls >= 2
    /\ indexRuns.builds = 1
    /\ indexRuns.reads = 1
    /\ indexRuns.out = Returned(Str("skipped"))
    /\ disk.dir.exists
    /\ disk.dir.index \in DocumentTexts
    /\ disk.doc # Document(disk.dir.index)

(***************************************************************************)
(* Calls of insert and insertMany that are not awaited one after the       *)
(* other: each call reads the table file, and writes it at a later time.   *)
(***************************************************************************)
MaxCallers == 2

Callers == 1..MaxCallers

\* insert from its start to the await of _writeTable: the table as read with
\* the new record pushed, and the uuids handed out
insertRead(file, calls, data, fault) ==
    [tableData |-> Append(_readTable(file, fault),
                          WithProperty(data, "id", randomUUID(calls))),
     newRecords |-> <<WithProperty(data, "id", randomUUID(calls))>>,
     calls |-> calls + 1]

\* insertMany from its start to the await of _writeTable
insertManyRead(file, calls, dataArray, fault) ==
    insertManyLoop(dataArray.items, 1, _readTable(file, fault), <<>>, calls)

VARIABLES
    writers,    \* for each caller, the call it has started and not finished
    written     \* the records the finished calls returned, and whether two
                \* calls were ever under way at the same time

raceVars == <<writers, written>>

NotWriting == [writing |-> FALSE, tableData |-> <<>>, newRecords |-> <<>>]

Writing(read) ==
    [writing |-> TRUE, tableData |-> read.tableData, newRecords |-> read.newRecords]

RaceIdle ==
    /\ writers = [c \in Callers |-> NotWriting]
    /\ written = [returned |-> {}, overlapped |-> FALSE]

RaceInit ==
    /\ files \in [Tables -> {MissingFile, InvalidFile}]
    /\ uuidCalls = 0
    /\ last = NoCall
    /\ RaceIdle

\* What the racing callers pass: a record, and an array of two records
RaceData == {Obj([content |-> Str(c)]) : c \in Contents}

RaceBatches == {Arr(<<Obj([content |-> Str("a")]), Obj([content |-> Str("b")])>>)}

\* A call has read the table and is about to write it
Started(c, read) ==
    /\ ~writers[c].writing
    /\ read.calls <= MaxUuids
    /\ uuidCalls' = read.calls
    /\ writers' = [writers EXCEPT ![c] = Writing(read)]
    /\ written' = [written EXCEPT !.overlapped =
                      @ \/ \E d \in Callers \ {c} : writers[d].writing]
    /\ UNCHANGED <<files, last>>

InsertRead(c, data, fault) ==
    Started(c, insertRead(files[EMBEDDINGS_TABLE], uuidCalls, data, fault))

InsertManyRead(c, dataArray, fault) ==
    Started(c, insertManyRead(files[EMBEDDINGS_TABLE], uuidCalls, dataArray, fault))

\* await this._writeTable(tableName, tableData); return newRecord(s)
WriteAndReturn(c, outcome) ==
    /\ writers[c].writing
    /\ files' = [files EXCEPT ![EMBEDDINGS_TABLE] =
                    _writeTable(@, writers[c].tableData, outcome)]
    /\ writers' = [writers EXCEPT ![c] = NotWriting]
    /\ written' = [written EXCEPT !.returned =
                      IF outcome = "ok"
                      THEN @ \cup {writers[c].newRecords[k] :
                                      k \in 1..Len(writers[c].newRecords)}
                      ELSE @]
    /\ UNCHANGED <<uuidCalls, last>>

\* The records the table file holds
RecordsIn(file) ==
    {_readTable(file, FALSE)[k] : k \in 1..Len(_readTable(file, FALSE))}

\* C15: as long as no two calls of insert or insertMany on the table have been
\* under way at the same time, every record a call has returned is in the
\* table file
C15_NoLossWithoutOverlap ==
    ~written.overlapped =>
        written.returned \subseteq RecordsIn(files[EMBEDDINGS_TABLE])

vars == <<files, uuidCalls, last, vecA, vecB, result, userQuery, provider, found,
          value, chunkSize, overlap, chunked, pdf, processed,
          disk, indexRuns, writers, written>>

StoreIdle == files = [t \in Tables |-> MissingFile] /\ uuidCalls = 0 /\ last = NoCall

\* The variables of the operations that come after the chunker
laterVars == <<pdfVars, indexVars, raceVars>>

LaterIdle == PdfIdle /\ IndexIdle /\ RaceIdle

(***************************************************************************)
(* The record store: the calls of DatabaseAdapter, in any order.           *)
(***************************************************************************)
InsertCall ==
    /\ \E tableName \in TableNames, data \in InputData,
          fault \in BOOLEAN, outcome \in WriteOutcomes :
           Insert(tableName, data, fault, outcome)
    /\ UNCHANGED <<cosineVars, searchVars, chunkVars, laterVars>>

InsertManyCall ==
    /\ \E tableName \in TableNames, dataArray \in InputBatches,
          fault \in BOOLEAN, outcome \in WriteOutcomes :
           InsertMany(tableName, dataArray, fault, outcome)
    /\ UNCHANGED <<cosineVars, searchVars, chunkVars, laterVars>>

GetByIdCall ==
    /\ \E tableName \in TableNames, id \in InputIds, fault \in BOOLEAN :
           GetById(tableName, id, fault)
    /\ UNCHANGED <<cosineVars, searchVars, chunkVars, laterVars>>

GetAllCall ==
    /\ \E tableName \in TableNames, fault \in BOOLEAN : GetAll(tableName, fault)
    /\ UNCHANGED <<cosineVars, searchVars, chunkVars, laterVars>>

Init == StoreInit /\ CosineIdle /\ SearchIdle /\ ChunkIdle /\ LaterIdle

Next == InsertCall \/ InsertManyCall \/ GetByIdCall \/ GetAllCall

Spec == Init /\ [][Next]_vars

(***************************************************************************)
(* cosineSimilarity applied to a pair of vectors.                          *)
(***************************************************************************)
CosineCall == CosineSimilarity /\ UNCHANGED <<storeVars, searchVars, chunkVars, laterVars>>

InitCosine == StoreIdle /\ CosineInit /\ SearchIdle /\ ChunkIdle /\ LaterIdle

NextCosine == CosineCall

SpecCosine == InitCosine /\ [][NextCosine]_vars

(***************************************************************************)
(* A search over a table of embeddings.                                    *)
(***************************************************************************)
FindMostSimilarCall == FindMostSimilar /\ UNCHANGED <<storeVars, cosineVars, chunkVars, laterVars>>

FindRelevantContentCall ==
    /\ \E fault \in BOOLEAN : FindRelevantContent(fault)
    /\ UNCHANGED <<storeVars, cosineVars, chunkVars, laterVars>>

InitSearch == SearchInit /\ CosineIdle /\ ChunkIdle /\ LaterIdle

NextSearch == FindMostSimilarCall \/ FindRelevantContentCall

SpecSearch == InitSearch /\ [][NextSearch]_vars

(***************************************************************************)
(* generateEmbeddings applied to a text.                                   *)
(***************************************************************************)
GenerateEmbeddingsCall ==
    /\ GenerateEmbeddings
    /\ UNCHANGED <<storeVars, cosineVars, userQuery, provider, found, laterVars>>

InitChunk ==
    /\ StoreIdle /\ CosineIdle /\ ChunkInit
    /\ userQuery = "" /\ found = NoSearch
    /\ LaterIdle

NextChunk == GenerateEmbeddingsCall

SpecChunk == InitChunk /\ [][NextChunk]_vars

(***************************************************************************)
(* processPdf applied to a PDF file.                                       *)
(***************************************************************************)
ProcessPdfCall ==
    /\ \E io \in PdfIo : ProcessPdf(io)
    /\ UNCHANGED <<cosineVars, userQuery, found, chunkVars, indexVars, raceVars>>

InitPdf ==
    /\ PdfInit /\ CosineIdle /\ ChunkIdle /\ IndexIdle /\ RaceIdle
    /\ userQuery = "" /\ found = NoSearch

NextPdf == ProcessPdfCall

SpecPdf == InitPdf /\ [][NextPdf]_vars

(***************************************************************************)
(* indexDocument called again and again on one persistDir.                 *)
(***************************************************************************)
IndexDocumentCall ==
    /\ \E stat \in StatOutcomes, indexing \in IndexingOutcomes :
           IndexDocument(stat, indexing)
    /\ UNCHANGED <<storeVars, cosineVars, searchVars, chunkVars, pdfVars, raceVars>>

EditDocumentCall ==
    /\ \E text \in DocumentTexts : EditDocument(text)
    /\ UNCHANGED <<storeVars, cosineVars, searchVars, chunkVars, pdfVars, raceVars>>

InitIndex ==
    /\ StoreIdle /\ CosineIdle /\ SearchIdle /\ ChunkIdle
    /\ PdfIdle /\ IndexInit /\ RaceIdle

NextIndex == IndexDocumentCall \/ EditDocumentCall

SpecIndex == InitIndex /\ [][NextIndex]_vars

(***************************************************************************)
(* Callers of insert and insertMany that do not wait for each other.       *)
(***************************************************************************)
InsertReadCall ==
    /\ \E c \in Callers, data \in RaceData, fault \in BOOLEAN :
           InsertRead(c, data, fault)
    /\ UNCHANGED <<cosineVars, searchVars, chunkVars, pdfVars, indexVars>>

InsertManyReadCall ==
    /\ \E c \in Callers, dataArray \in RaceBatches, fault \in BOOLEAN :
           InsertManyRead(c, dataArray, fault)
    /\ UNCHANGED <<cosineVars, searchVars, chunkVars, pdfVars, indexVars>>

WriteAndReturnCall ==
    /\ \E c \in Callers, outcome \in WriteOutcomes : WriteAndReturn(c, outcome)
    /\ UNCHANGED <<cosineVars, searchVars, chunkVars, pdfVars, indexVars>>

InitRace ==
    /\ RaceInit /\ CosineIdle /\ SearchIdle /\ ChunkIdle /\ PdfIdle /\ IndexIdle

NextRace == InsertReadCall \/ InsertManyReadCall \/ WriteAndReturnCall

SpecRace == InitRace /\ [][NextRace]_vars
====
